---------------------------- MODULE Spec2Model ----------------------------
(***************************************************************************)
(* PegInsertionSide-v1 (mani_skill/envs/tasks/tabletop/                    *)
(* peg_insertion_side.py): procedural peg / box-with-hole geometry, the    *)
(* derived frames, the success predicate and the staged dense reward.      *)
(*                                                                         *)
(* Fixed point.  Lengths are integers in half millimetres (UnitsPerMetre   *)
(* per metre), rewards and tanh values are integers in thousandths.        *)
(* Rotations are the exact rotation matrices of quarter turns, so that     *)
(* composing and inverting poses is exact integer arithmetic.              *)
(***************************************************************************)
EXTENDS Integers, Sequences, FiniteSets, TLC

VARIABLES
    num_envs,           \* constructor argument num_envs
    peg_half_sizes,     \* self.peg_half_sizes   [env -> <<length, radius, radius>>]
    peg_head_offsets,   \* self.peg_head_offsets [env -> Pose]
    box_hole_offsets,   \* self.box_hole_offsets [env -> Pose]
    box_hole_radii,     \* self.box_hole_radii   [env -> Int]
    box_walls,          \* collision boxes of box_with_hole_i [env -> Seq of wall]
    peg_pose,           \* self.peg.pose          [env -> Pose]
    box_pose,           \* self.box.pose          [env -> Pose]
    tcp_p,              \* self.agent.tcp.pose.p  [env -> vec]
    is_grasping,        \* self.agent.is_grasping(self.peg, max_angle=20) [env -> BOOLEAN]
    info,               \* the dict returned by evaluate() for the current tick, or NoInfo
    reward,             \* the reward returned for the current tick, or NoReward
    log,                \* the success values evaluate() returned in this episode (newest last)
    op                  \* the operation that ran last

vars == <<num_envs, peg_half_sizes, peg_head_offsets, box_hole_offsets, box_hole_radii, box_walls, peg_pose, box_pose, tcp_p, is_grasping, info, reward, log, op>>

---------------------------------------------------------------------------
(* Bounds of the model *)

\* largest batch checked by the batched specification
MaxEnvs == 2
\* how many evaluate() results of an episode are remembered
MaxLog == 3

---------------------------------------------------------------------------
(* Units *)

UnitsPerMetre == 2 * 1000
\* a length given in millimetres
mm(x) == (x * UnitsPerMetre) \div 1000
\* a reward / tanh value: thousandths
One == 10 * 100

---------------------------------------------------------------------------
(* Vectors, quarter-turn rotations, and torch helpers *)

Abs(x) == IF x < 0 THEN -x ELSE x
Max2(a, b) == IF a >= b THEN a ELSE b

vadd(a, b) == <<a[1] + b[1], a[2] + b[2], a[3] + b[3]>>
vsub(a, b) == <<a[1] - b[1], a[2] - b[2], a[3] - b[3]>>
vneg(a) == <<-a[1], -a[2], -a[3]>>
dot(a, b) == a[1] * b[1] + a[2] * b[2] + a[3] * b[3]
Zero3 == <<0, 0, 0>>

\* rotation matrices, by rows
RotId == << <<1, 0, 0>>, <<0, 1, 0>>, <<0, 0, 1>> >>
\* a quarter turn about the z axis (yaw of pi/2)
RotZ90 == << <<0, -1, 0>>, <<1, 0, 0>>, <<0, 0, 1>> >>
rotate(R, v) == <<dot(R[1], v), dot(R[2], v), dot(R[3], v)>>
transpose(R) == << <<R[1][1], R[2][1], R[3][1]>>, <<R[1][2], R[2][2], R[3][2]>>, <<R[1][3], R[2][3], R[3][3]>> >>
col(R, j) == <<R[1][j], R[2][j], R[3][j]>>
rot_row(a, B) == <<dot(a, col(B, 1)), dot(a, col(B, 2)), dot(a, col(B, 3))>>
rot_mul(A, B) == <<rot_row(A[1], B), rot_row(A[2], B), rot_row(A[3], B)>>
RotZ180 == rot_mul(RotZ90, RotZ90)
RotZ270 == rot_mul(RotZ180, RotZ90)

RECURSIVE SqrtIter(_, _, _)
SqrtIter(n, lo, hi) ==
    IF lo >= hi THEN lo
    ELSE LET mid == (lo + hi + 1) \div 2
         IN  IF mid * mid <= n THEN SqrtIter(n, mid, hi) ELSE SqrtIter(n, lo, mid - 1)

\* torch.linalg.norm of a 3-vector, rounded down to the unit
norm3(v) == SqrtIter(dot(v, v), 0, Abs(v[1]) + Abs(v[2]) + Abs(v[3]))
\* torch.linalg.norm of the y,z part (p[:, 1:])
norm_yz(v) == SqrtIter(v[2] * v[2] + v[3] * v[3], 0, Abs(v[2]) + Abs(v[3]))

\* tanh at 0, 0.25, 0.5, ... 4.5, in thousandths
TanhTable == <<0, 245, 462, 635, 762, 848, 905, 941, 964, 978, 987, 992, 995, 997, 998, 999, 999, 1000, 1000>>
\* torch.tanh of x >= 0 (x and the result in thousandths), linear between table points
tanh(x) ==
    IF x >= 4500 THEN One
    ELSE LET k == x \div 250
             f == x % 250
         IN  TanhTable[k + 1] + ((TanhTable[k + 2] - TanhTable[k + 1]) * f) \div 250

---------------------------------------------------------------------------
(* mani_skill.utils.structs.Pose / sapien.Pose: rigid transforms *)

create_from_pq(p, q) == [p |-> p, q |-> q]
\* sapien.Pose(p): identity rotation
sapien_Pose(p) == create_from_pq(p, RotId)
\* Pose.__mul__ : a * b  (x, y: the operands, each evaluated once)
pose_mul(a, b) == CHOOSE r \in {[p |-> vadd(x.p, rotate(x.q, y.p)), q |-> rot_mul(x.q, y.q)] : x \in {a}, y \in {b}} : TRUE
\* Pose.inv()
pose_inv(a) == CHOOSE r \in {[p |-> vneg(rotate(transpose(x.q), x.p)), q |-> transpose(x.q)] : x \in {a}} : TRUE

\* batched versions: one pose per environment
batch_mul(A, B) == [i \in DOMAIN A |-> pose_mul(A[i], B[i])]
batch_inv(A) == [i \in DOMAIN A |-> pose_inv(A[i])]
\* a batched pose times one sapien.Pose, broadcast
batch_mul1(A, b) == [i \in DOMAIN A |-> pose_mul(A[i], b)]

---------------------------------------------------------------------------
(* Program constants *)

clearance == mm(3)
\* success tolerance along the hole axis: 0.015
x_tolerance == mm(15)
\* pre-insertion gate: 0.01
pre_insert_tolerance == mm(10)
\* compute_dense_reward: offset = sapien.Pose([-0.06, 0, 0])
grasp_offset == sapien_Pose(<<-mm(60), 0, 0>>)
\* reward[info["success"]] = 10
success_reward == 10 * One

NoInfo == [success |-> <<>>, peg_head_pos_at_hole |-> <<>>]
NoReward == <<>>

Envs(n) == 1..n

\* the object the methods read: self
Self == [num_envs |-> num_envs, peg_half_sizes |-> peg_half_sizes, peg_head_offsets |-> peg_head_offsets, box_hole_offsets |-> box_hole_offsets, box_hole_radii |-> box_hole_radii, peg_pose |-> peg_pose, box_pose |-> box_pose, tcp_p |-> tcp_p, is_grasping |-> is_grasping]

---------------------------------------------------------------------------
(* _build_box_with_hole *)

\* _build_box_with_hole placing the walls as if the hole were centred
build_box_with_hole_unshifted(inner_radius, outer_radius, depth, center) ==
    LET thickness == (outer_radius - inner_radius) \div 2
        half_center == <<center[1] \div 2, center[2] \div 2>>
        offset == thickness + inner_radius
    IN  << [half_size |-> <<depth, thickness - half_center[1], outer_radius>>, pose |-> <<0, offset, 0>>],
           [half_size |-> <<depth, thickness + half_center[1], outer_radius>>, pose |-> <<0, -offset, 0>>],
           [half_size |-> <<depth, outer_radius, thickness - half_center[2]>>, pose |-> <<0, 0, offset>>],
           [half_size |-> <<depth, outer_radius, thickness + half_center[2]>>, pose |-> <<0, 0, -offset>>] >>

\* the four collision / visual boxes: pose (position) and half size of each
build_box_with_hole(inner_radius, outer_radius, depth, center) ==
    LET thickness == (outer_radius - inner_radius) \div 2
        half_center == <<center[1] \div 2, center[2] \div 2>>
        offset == thickness + inner_radius
    IN  << [half_size |-> <<depth, thickness - half_center[1], outer_radius>>, pose |-> <<0, offset + half_center[1], 0>>],
           [half_size |-> <<depth, thickness + half_center[1], outer_radius>>, pose |-> <<0, -offset + half_center[1], 0>>],
           [half_size |-> <<depth, outer_radius, thickness - half_center[2]>>, pose |-> <<0, 0, offset + half_center[2]>>],
           [half_size |-> <<depth, outer_radius, thickness + half_center[2]>>, pose |-> <<0, 0, -offset + half_center[2]>>] >>

---------------------------------------------------------------------------
(* _load_scene *)

\* centers = 0.5 * (lengths - radii)[:, None] * uniform(-1, 1, size=(2,)),
\* the uniform draw being u / 2 for u in -2..2
\* the centers without the factor 0.5
centers_of_unscaled(length, radius, u) == <<((length - radius) * u[1]) \div 2, ((length - radius) * u[2]) \div 2>>

centers_of(length, radius, u) == <<((length - radius) * u[1]) \div 4, ((length - radius) * u[2]) \div 4>>

\* the fields _load_scene stores and the actors it builds, from the three draws
load_scene(n, lengths, radii, us) ==
    LET centers == [i \in Envs(n) |-> centers_of(lengths[i], radii[i], us[i])]
    IN  [ peg_half_sizes   |-> [i \in Envs(n) |-> <<lengths[i], radii[i], radii[i]>>],
          peg_head_offsets |-> [i \in Envs(n) |-> sapien_Pose(<<lengths[i], 0, 0>>)],
          box_hole_offsets |-> [i \in Envs(n) |-> sapien_Pose(<<0, centers[i][1], centers[i][2]>>)],
          box_hole_radii   |-> [i \in Envs(n) |-> radii[i] + clearance],
          box_walls        |-> [i \in Envs(n) |-> build_box_with_hole(radii[i] + clearance, lengths[i], lengths[i], centers[i])],
          peg_pose         |-> [i \in Envs(n) |-> sapien_Pose(<<0, 0, mm(100)>>)],
          box_pose         |-> [i \in Envs(n) |-> sapien_Pose(<<0, mm(1000), mm(100)>>)] ]

---------------------------------------------------------------------------
(* _initialize_episode *)

\* the robot's tool centre point at the nominal joint configuration
TcpHome == <<0, 0, mm(200)>>

\* _initialize_episode reading the sizes by row of the reset batch, not by env_idx
initialize_episode_by_row(self, env_idx, peg_xy, box_xy) ==
    LET b == Len(env_idx)
        peg_pos == [k \in 1..b |-> <<peg_xy[k][1], peg_xy[k][2], self.peg_half_sizes[k][3]>>]
        box_pos == [k \in 1..b |-> <<box_xy[k][1], box_xy[k][2], self.peg_half_sizes[k][1]>>]
        row(i) == CHOOSE k \in 1..b : env_idx[k] = i
        reset == {env_idx[k] : k \in 1..b}
    IN  [ peg_pose |-> [i \in Envs(self.num_envs) |-> IF i \in reset THEN create_from_pq(peg_pos[row(i)], RotZ90) ELSE self.peg_pose[i]],
          box_pose |-> [i \in Envs(self.num_envs) |-> IF i \in reset THEN create_from_pq(box_pos[row(i)], RotZ90) ELSE self.box_pose[i]],
          reset    |-> reset ]

\* env_idx is the sequence of environments being reset; peg_xy and box_xy are
\* the b = len(env_idx) uniform draws; row k of each batch of b poses is
\* written to environment env_idx[k] by set_pose
initialize_episode(self, env_idx, peg_xy, box_xy) ==
    LET b == Len(env_idx)
        peg_pos == [k \in 1..b |-> <<peg_xy[k][1], peg_xy[k][2], self.peg_half_sizes[env_idx[k]][3]>>]
        box_pos == [k \in 1..b |-> <<box_xy[k][1], box_xy[k][2], self.peg_half_sizes[env_idx[k]][1]>>]
        row(i) == CHOOSE k \in 1..b : env_idx[k] = i
        reset == {env_idx[k] : k \in 1..b}
    IN  [ peg_pose |-> [i \in Envs(self.num_envs) |-> IF i \in reset THEN create_from_pq(peg_pos[row(i)], RotZ90) ELSE self.peg_pose[i]],
          box_pose |-> [i \in Envs(self.num_envs) |-> IF i \in reset THEN create_from_pq(box_pos[row(i)], RotZ90) ELSE self.box_pose[i]],
          reset    |-> reset ]

---------------------------------------------------------------------------
(* Derived frames *)

peg_head_pos(self) == [i \in Envs(self.num_envs) |-> vadd(self.peg_pose[i].p, self.peg_head_offsets[i].p)]
peg_head_pose(self) == batch_mul(self.peg_pose, self.peg_head_offsets)
box_hole_pose(self) == batch_mul(self.box_pose, self.box_hole_offsets)
\* goal_pose taken from the peg's pose instead of the box's
goal_pose_from_peg(self) == batch_mul(batch_mul(self.peg_pose, self.box_hole_offsets), batch_inv(self.peg_head_offsets))

goal_pose(self) == batch_mul(batch_mul(self.box_pose, self.box_hole_offsets), batch_inv(self.peg_head_offsets))

---------------------------------------------------------------------------
(* has_peg_inserted, evaluate *)

\* has_peg_inserted comparing every instance with the first instance's hole radius
has_peg_inserted_first_radius(self) ==
    LET at_hole == batch_mul(batch_inv(box_hole_pose(self)), peg_head_pose(self))
        peg_head_pos_at_hole == [i \in Envs(self.num_envs) |-> at_hole[i].p]
        x_flag == [i \in Envs(self.num_envs) |-> -x_tolerance <= peg_head_pos_at_hole[i][1]]
        y_flag == [i \in Envs(self.num_envs) |-> (-self.box_hole_radii[1] <= peg_head_pos_at_hole[i][2]) /\ (peg_head_pos_at_hole[i][2] <= self.box_hole_radii[1])]
        z_flag == [i \in Envs(self.num_envs) |-> (-self.box_hole_radii[1] <= peg_head_pos_at_hole[i][3]) /\ (peg_head_pos_at_hole[i][3] <= self.box_hole_radii[1])]
    IN  << [i \in Envs(self.num_envs) |-> x_flag[i] /\ y_flag[i] /\ z_flag[i]], peg_head_pos_at_hole >>

\* has_peg_inserted with the bounds taken strictly
has_peg_inserted_strict(self) ==
    LET at_hole == batch_mul(batch_inv(box_hole_pose(self)), peg_head_pose(self))
        peg_head_pos_at_hole == [i \in Envs(self.num_envs) |-> at_hole[i].p]
        x_flag == [i \in Envs(self.num_envs) |-> -x_tolerance < peg_head_pos_at_hole[i][1]]
        y_flag == [i \in Envs(self.num_envs) |-> (-self.box_hole_radii[i] < peg_head_pos_at_hole[i][2]) /\ (peg_head_pos_at_hole[i][2] < self.box_hole_radii[i])]
        z_flag == [i \in Envs(self.num_envs) |-> (-self.box_hole_radii[i] < peg_head_pos_at_hole[i][3]) /\ (peg_head_pos_at_hole[i][3] < self.box_hole_radii[i])]
    IN  << [i \in Envs(self.num_envs) |-> x_flag[i] /\ y_flag[i] /\ z_flag[i]], peg_head_pos_at_hole >>

has_peg_inserted(self) ==
    LET at_hole == batch_mul(batch_inv(box_hole_pose(self)), peg_head_pose(self))
        peg_head_pos_at_hole == [i \in Envs(self.num_envs) |-> at_hole[i].p]
        x_flag == [i \in Envs(self.num_envs) |-> -x_tolerance <= peg_head_pos_at_hole[i][1]]
        y_flag == [i \in Envs(self.num_envs) |-> (-self.box_hole_radii[i] <= peg_head_pos_at_hole[i][2]) /\ (peg_head_pos_at_hole[i][2] <= self.box_hole_radii[i])]
        z_flag == [i \in Envs(self.num_envs) |-> (-self.box_hole_radii[i] <= peg_head_pos_at_hole[i][3]) /\ (peg_head_pos_at_hole[i][3] <= self.box_hole_radii[i])]
    IN  << [i \in Envs(self.num_envs) |-> x_flag[i] /\ y_flag[i] /\ z_flag[i]], peg_head_pos_at_hole >>

evaluate(self) ==
    LET r == has_peg_inserted(self)
    IN  [success |-> r[1], peg_head_pos_at_hole |-> r[2]]

---------------------------------------------------------------------------
(* compute_dense_reward, compute_normalized_dense_reward *)

\* 1 - tanh(4.0 * gripper_to_peg_dist)
reaching_reward(self) ==
    LET tgt_gripper_pose == batch_mul1(self.peg_pose, grasp_offset)
        gripper_to_peg_dist == [i \in Envs(self.num_envs) |-> norm3(vsub(self.tcp_p[i], tgt_gripper_pose[i].p))]
    IN  [i \in Envs(self.num_envs) |-> One - tanh((4 * gripper_to_peg_dist[i] * One) \div UnitsPerMetre)]

peg_head_wrt_goal_yz_dist(self) ==
    LET peg_head_wrt_goal == batch_mul(batch_inv(goal_pose(self)), peg_head_pose(self))
    IN  [i \in Envs(self.num_envs) |-> norm_yz(peg_head_wrt_goal[i].p)]

peg_wrt_goal_yz_dist(self) ==
    LET peg_wrt_goal == batch_mul(batch_inv(goal_pose(self)), self.peg_pose)
    IN  [i \in Envs(self.num_envs) |-> norm_yz(peg_wrt_goal[i].p)]

\* 3 * (1 - tanh(0.5 * (d_head + d_body) + 4.5 * max(d_head, d_body)))
pre_insertion_reward(self) ==
    LET dh == peg_head_wrt_goal_yz_dist(self)
        db == peg_wrt_goal_yz_dist(self)
    IN  [i \in Envs(self.num_envs) |-> 3 * (One - tanh((((dh[i] + db[i]) + 9 * Max2(dh[i], db[i])) * One) \div (2 * UnitsPerMetre)))]

pre_inserted(self) ==
    LET dh == peg_head_wrt_goal_yz_dist(self)
        db == peg_wrt_goal_yz_dist(self)
    IN  [i \in Envs(self.num_envs) |-> (dh[i] < pre_insert_tolerance) /\ (db[i] < pre_insert_tolerance)]

\* 5 * (1 - tanh(5.0 * norm(peg_head_wrt_goal_inside_hole.p)))
insertion_reward(self) ==
    LET peg_head_wrt_goal_inside_hole == batch_mul(batch_inv(box_hole_pose(self)), peg_head_pose(self))
    IN  [i \in Envs(self.num_envs) |-> 5 * (One - tanh((5 * norm3(peg_head_wrt_goal_inside_hole[i].p) * One) \div UnitsPerMetre))]

\* a boolean used as a number
b2i(flag) == IF flag THEN 1 ELSE 0

\* compute_dense_reward adding the terminal value to the staged terms
compute_dense_reward_added(self, inf) ==
    LET is_grasped == self.is_grasping
        r1 == [i \in Envs(self.num_envs) |-> reaching_reward(self)[i] + b2i(is_grasped[i]) * One]
        r2 == [i \in Envs(self.num_envs) |-> r1[i] + pre_insertion_reward(self)[i] * b2i(is_grasped[i])]
        r3 == [i \in Envs(self.num_envs) |-> r2[i] + insertion_reward(self)[i] * b2i(is_grasped[i] /\ pre_inserted(self)[i])]
    IN  [i \in Envs(self.num_envs) |-> IF inf.success[i] THEN r3[i] + success_reward ELSE r3[i]]

\* compute_dense_reward with the insertion term gated on pre_inserted alone
compute_dense_reward_ungated(self, inf) ==
    LET is_grasped == self.is_grasping
        r1 == [i \in Envs(self.num_envs) |-> reaching_reward(self)[i] + b2i(is_grasped[i]) * One]
        r2 == [i \in Envs(self.num_envs) |-> r1[i] + pre_insertion_reward(self)[i] * b2i(is_grasped[i])]
        r3 == [i \in Envs(self.num_envs) |-> r2[i] + insertion_reward(self)[i] * b2i(pre_inserted(self)[i])]
    IN  [i \in Envs(self.num_envs) |-> IF inf.success[i] THEN success_reward ELSE r3[i]]

compute_dense_reward(self, inf) ==
    LET is_grasped == self.is_grasping
        r1 == [i \in Envs(self.num_envs) |-> reaching_reward(self)[i] + b2i(is_grasped[i]) * One]
        r2 == [i \in Envs(self.num_envs) |-> r1[i] + pre_insertion_reward(self)[i] * b2i(is_grasped[i])]
        r3 == [i \in Envs(self.num_envs) |-> r2[i] + insertion_reward(self)[i] * b2i(is_grasped[i] /\ pre_inserted(self)[i])]
    IN  [i \in Envs(self.num_envs) |-> IF inf.success[i] THEN success_reward ELSE r3[i]]

compute_normalized_dense_reward(self, inf) ==
    [i \in Envs(self.num_envs) |-> compute_dense_reward(self, inf)[i] \div 10]

---------------------------------------------------------------------------
(* Inputs: the random draws and what the physics solver may produce *)

\* half lengths in [0.085, 0.125], radii in [0.015, 0.025], uniform(-1, 1) draws as halves
AllLengths == {mm(85), mm(105), mm(125)}
AllRadii == {mm(17), mm(25)}
AllUs == {<<a, b>> : a \in -2..2, b \in -2..2}

\* peg xy in [-0.1, 0.1] x [-0.3, 0], box xy in [-0.05, 0.05] x [0.2, 0.4]
PegXY == {<<-mm(100), -mm(300)>>, <<mm(100), 0>>}
BoxXY == {<<-mm(50), mm(200)>>, <<mm(50), mm(400)>>}

\* the environments of env_idx, in increasing order
RECURSIVE SortedSeq(_)
SortedSeq(S) ==
    IF S = {} THEN <<>>
    ELSE LET m == CHOOSE x \in S : \A y \in S : x <= y
         IN  <<m>> \o SortedSeq(S \ {m})

\* where the solver may leave the peg head, in the hole's frame.  Along the
\* axis: short of the mouth tolerance, on it, at the centre, far past it.
\* Across the axis: inside the tolerance, on its rim, just outside it; on and
\* just inside the pre-insertion gate.  Last, a peg turned a quarter across
\* the hole axis.
HeadPoses(hole_radius) ==
    << sapien_Pose(<<-x_tolerance - 1, 0, 0>>),
       sapien_Pose(<<-x_tolerance, 0, 0>>),
       sapien_Pose(<<0, 0, 0>>),
       sapien_Pose(<<mm(50), 0, 0>>),
       sapien_Pose(<<0, mm(10), -mm(10)>>),
       sapien_Pose(<<0, hole_radius, -hole_radius>>),
       sapien_Pose(<<0, hole_radius + 1, 0>>),
       sapien_Pose(<<0, 0, -hole_radius - 1>>),
       sapien_Pose(<<-x_tolerance, hole_radius, -hole_radius>>),
       sapien_Pose(<<-x_tolerance - 1, pre_insert_tolerance, 0>>),
       sapien_Pose(<<-x_tolerance - 1, pre_insert_tolerance - 1, 0>>),
       create_from_pq(<<-x_tolerance - 1, 0, 0>>, RotZ90) >>
FewHeadPoses(hole_radius) == << sapien_Pose(<<-x_tolerance - 1, 0, 0>>), sapien_Pose(<<0, hole_radius, 0>>) >>

\* the peg pose whose head has pose (head, rot) in the hole frame of environment i
peg_pose_for(self, i, head_pose) ==
    pose_mul(pose_mul(box_hole_pose(self)[i], head_pose), pose_inv(self.peg_head_offsets[i]))

---------------------------------------------------------------------------
(* Actions *)

\* reconfiguration: _load_scene rebuilds the geometry of every environment
LoadSceneFrom(Ls, Rs, Us) ==
    /\ op # "load_scene"
    /\ \E lengths \in [Envs(num_envs) -> Ls], radii \in [Envs(num_envs) -> Rs], us \in [Envs(num_envs) -> Us] :
         LET s == load_scene(num_envs, lengths, radii, us)
         IN  /\ peg_half_sizes' = s.peg_half_sizes
             /\ peg_head_offsets' = s.peg_head_offsets
             /\ box_hole_offsets' = s.box_hole_offsets
             /\ box_hole_radii' = s.box_hole_radii
             /\ box_walls' = s.box_walls
             /\ peg_pose' = s.peg_pose
             /\ box_pose' = s.box_pose
    /\ tcp_p' = [i \in Envs(num_envs) |-> TcpHome]
    /\ is_grasping' = [i \in Envs(num_envs) |-> FALSE]
    /\ info' = NoInfo
    /\ reward' = NoReward
    /\ log' = <<>>
    /\ op' = "load_scene"
    /\ UNCHANGED num_envs

\* _initialize_episode(env_idx): all environments after a reconfiguration
InitializeEpisodeFrom(PXY, BXY) ==
    \E idx \in (SUBSET Envs(num_envs)) \ {{}} :
        /\ op = "load_scene" => idx = Envs(num_envs)
        /\ LET env_idx == SortedSeq(idx)
               b == Len(env_idx)
           IN  \E peg_xy \in [1..b -> PXY], box_xy \in [1..b -> BXY] :
                 LET s == initialize_episode(Self, env_idx, peg_xy, box_xy)
                 IN  /\ peg_pose' = s.peg_pose
                     /\ box_pose' = s.box_pose
                     /\ tcp_p' = [i \in Envs(num_envs) |-> IF i \in s.reset THEN TcpHome ELSE tcp_p[i]]
                     /\ is_grasping' = [i \in Envs(num_envs) |-> IF i \in s.reset THEN FALSE ELSE is_grasping[i]]
        /\ info' = NoInfo
        /\ reward' = NoReward
        /\ log' = <<>>
        /\ op' = "initialize_episode"
        /\ UNCHANGED <<num_envs, peg_half_sizes, peg_head_offsets, box_hole_offsets, box_hole_radii, box_walls>>

\* one step of the physics collaborator: the peg, the gripper and the grasp
\* predicate change (a grasp needs the gripper at the peg); the kinematic box
\* and the geometry do not
PhysicsStepTo(few) ==
    /\ op \in {"initialize_episode", "physics", "compute_dense_reward", "compute_normalized_dense_reward"}
    /\ \E pick \in [Envs(num_envs) -> 1..Len(IF few THEN FewHeadPoses(0) ELSE HeadPoses(0))] :
         \E new_peg \in {[i \in Envs(num_envs) |-> peg_pose_for(Self, i, (IF few THEN FewHeadPoses(box_hole_radii[i]) ELSE HeadPoses(box_hole_radii[i]))[pick[i]])]} :
            /\ peg_pose' = new_peg
            /\ \E at_peg \in [Envs(num_envs) -> IF few THEN {TRUE} ELSE BOOLEAN], grasp \in [Envs(num_envs) -> IF few THEN {TRUE} ELSE BOOLEAN] :
                 /\ \A i \in Envs(num_envs) : grasp[i] => at_peg[i]
                 /\ tcp_p' = [i \in Envs(num_envs) |-> IF at_peg[i] THEN pose_mul(new_peg[i], grasp_offset).p ELSE TcpHome]
                 /\ is_grasping' = grasp
    /\ info' = NoInfo
    /\ reward' = NoReward
    /\ op' = "physics"
    /\ UNCHANGED <<num_envs, peg_half_sizes, peg_head_offsets, box_hole_offsets, box_hole_radii, box_walls, box_pose, log>>

\* the newest MaxLog entries
Newest(seq) == IF Len(seq) <= MaxLog THEN seq ELSE SubSeq(seq, Len(seq) - MaxLog + 1, Len(seq))

\* evaluate() keeping success once it was reported in the episode
Evaluate_latched ==
    /\ op # "load_scene"
    /\ info = NoInfo
    /\ info' = [evaluate(Self) EXCEPT !.success = [i \in Envs(num_envs) |-> evaluate(Self).success[i] \/ (Len(log) > 0 /\ log[Len(log)][i])]]
    /\ log' = Newest(Append(log, info'.success))
    /\ reward' = NoReward
    /\ op' = "evaluate"
    /\ UNCHANGED <<num_envs, peg_half_sizes, peg_head_offsets, box_hole_offsets, box_hole_radii, box_walls, peg_pose, box_pose, tcp_p, is_grasping>>

\* info = evaluate()
Evaluate ==
    /\ op # "load_scene"
    /\ info = NoInfo
    /\ info' = evaluate(Self)
    /\ log' = Newest(Append(log, evaluate(Self).success))
    /\ reward' = NoReward
    /\ op' = "evaluate"
    /\ UNCHANGED <<num_envs, peg_half_sizes, peg_head_offsets, box_hole_offsets, box_hole_radii, box_walls, peg_pose, box_pose, tcp_p, is_grasping>>

\* reward = compute_dense_reward(obs, action, info)
ComputeDenseReward ==
    /\ info # NoInfo
    /\ reward = NoReward
    /\ reward' = compute_dense_reward(Self, info)
    /\ op' = "compute_dense_reward"
    /\ UNCHANGED <<num_envs, peg_half_sizes, peg_head_offsets, box_hole_offsets, box_hole_radii, box_walls, peg_pose, box_pose, tcp_p, is_grasping, info, log>>

\* reward = compute_normalized_dense_reward(obs, action, info)
ComputeNormalizedDenseReward ==
    /\ info # NoInfo
    /\ reward = NoReward
    /\ reward' = compute_normalized_dense_reward(Self, info)
    /\ op' = "compute_normalized_dense_reward"
    /\ UNCHANGED <<num_envs, peg_half_sizes, peg_head_offsets, box_hole_offsets, box_hole_radii, box_walls, peg_pose, box_pose, tcp_p, is_grasping, info, log>>

---------------------------------------------------------------------------
(* Specifications *)

\* the state after construction: the scene loaded and every environment's
\* first episode initialized
InitFrom(n, Ls, Rs, Us, PXY, BXY) ==
    /\ num_envs = n
    /\ \E lengths \in [Envs(n) -> Ls], radii \in [Envs(n) -> Rs], us \in [Envs(n) -> Us] :
         LET s == load_scene(n, lengths, radii, us)
         IN  /\ peg_half_sizes = s.peg_half_sizes
             /\ peg_head_offsets = s.peg_head_offsets
             /\ box_hole_offsets = s.box_hole_offsets
             /\ box_hole_radii = s.box_hole_radii
             /\ box_walls = s.box_walls
             /\ \E peg_xy \in [1..n -> PXY], box_xy \in [1..n -> BXY] :
                   LET e == initialize_episode([num_envs |-> n, peg_half_sizes |-> s.peg_half_sizes, peg_pose |-> s.peg_pose, box_pose |-> s.box_pose], SortedSeq(Envs(n)), peg_xy, box_xy)
                   IN  /\ peg_pose = e.peg_pose
                       /\ box_pose = e.box_pose
    /\ tcp_p = [i \in Envs(n) |-> TcpHome]
    /\ is_grasping = [i \in Envs(n) |-> FALSE]
    /\ info = NoInfo
    /\ reward = NoReward
    /\ log = <<>>
    /\ op = "initialize_episode"

\* one environment (the constructor's default), every operation
Init == InitFrom(1, {mm(85)}, AllRadii, {<<2, -1>>}, {<<mm(100), 0>>}, {<<mm(50), mm(400)>>})
LoadScene == LoadSceneFrom({mm(85)}, AllRadii, {<<2, -1>>})
InitializeEpisode == InitializeEpisodeFrom({<<mm(100), 0>>}, {<<mm(50), mm(400)>>})
PhysicsStep == PhysicsStepTo(FALSE)
Next == LoadScene \/ InitializeEpisode \/ PhysicsStep \/ Evaluate \/ ComputeDenseReward \/ ComputeNormalizedDenseReward
Spec == Init /\ [][Next]_vars

\* one environment, the whole range of geometry draws
InitGeom == InitFrom(1, AllLengths, AllRadii, AllUs, PegXY, BoxXY)
LoadSceneGeom == LoadSceneFrom(AllLengths, AllRadii, AllUs)
InitializeEpisodeGeom == InitializeEpisodeFrom(PegXY, BoxXY)
NextGeom == LoadSceneGeom \/ InitializeEpisodeGeom
SpecGeom == InitGeom /\ [][NextGeom]_vars

\* a batch of environments with different geometry, partial resets; with
\* num_envs > 1 the constructor sets reconfiguration_freq = 0: the scene is
\* built once
InitBatch == InitFrom(MaxEnvs, {mm(85), mm(125)}, AllRadii, {<<2, -1>>}, {<<mm(100), 0>>}, {<<mm(50), mm(400)>>})
InitializeEpisodeBatch == InitializeEpisodeFrom({<<mm(100), 0>>}, {<<mm(50), mm(400)>>})
PhysicsStepBatch == PhysicsStepTo(TRUE)
NextBatch == InitializeEpisodeBatch \/ PhysicsStepBatch
SpecBatch == InitBatch /\ [][NextBatch]_vars

---------------------------------------------------------------------------
(* Properties *)

\* the peg head in world coordinates: half_length along the peg's own x axis
HeadWorld(i) == vadd(peg_pose[i].p, rotate(peg_pose[i].q, <<peg_half_sizes[i][1], 0, 0>>))
\* the hole centre in world coordinates
HoleWorld(i) == vadd(box_pose[i].p, rotate(box_pose[i].q, <<0, box_hole_offsets[i].p[2], box_hole_offsets[i].p[3]>>))
\* the peg head in the hole's frame (x along the hole, y and z across it)
HeadAtHole(i) == rotate(transpose(box_pose[i].q), vsub(HeadWorld(i), HoleWorld(i)))
\* the tolerance volume of a hole of radius hr
InTolerance(h, hr) == h[1] >= -mm(15) /\ Abs(h[2]) <= hr /\ Abs(h[3]) <= hr

\* a scene of one environment: the hole frame at the origin with identity
\* rotation, hole radius hr, the peg head at h
ExampleSelf(h, hr) == [num_envs |-> 1, peg_half_sizes |-> <<<<mm(85), hr - clearance, hr - clearance>>>>, peg_head_offsets |-> <<sapien_Pose(<<mm(85), 0, 0>>)>>, box_hole_offsets |-> <<sapien_Pose(Zero3)>>, box_hole_radii |-> <<hr>>, peg_pose |-> <<sapien_Pose(vsub(h, <<mm(85), 0, 0>>))>>, box_pose |-> <<sapien_Pose(Zero3)>>, tcp_p |-> <<TcpHome>>, is_grasping |-> <<FALSE>>]

C2_TerminalOverride ==
    \A i \in Envs(num_envs) :
        /\ (op = "compute_dense_reward" /\ info.success[i]) => reward[i] = 10 * One
        /\ (op = "compute_normalized_dense_reward" /\ info.success[i]) => reward[i] = One

\* C2 witness: the dense reward was computed for a successful instance that
\* is grasped and pre-inserted, so every staged term is positive
C2_Witness ==
    /\ op = "compute_dense_reward"
    /\ info.success[1]
    /\ is_grasping[1]
    /\ pre_inserted(Self)[1]
    /\ reaching_reward(Self)[1] > 0
    /\ insertion_reward(Self)[1] > 0

\* C3: success is reported only when the inserted end of the peg is within
\* 0.015 m of the centre of the box along the hole axis (neither short of it
\* nor far past it).
C3_SuccessOnlyNearCenter ==
    \A i \in Envs(num_envs) :
        (op = "evaluate" /\ info.success[i]) => Abs(HeadAtHole(i)[1]) <= mm(15)

\* the goal pose written out: the box rotation, and the hole centre moved
\* back by half_length along the hole axis
GoalExplicit(i) == [p |-> vadd(box_pose[i].p, rotate(box_pose[i].q, <<-peg_half_sizes[i][1], box_hole_offsets[i].p[2], box_hole_offsets[i].p[3]>>)), q |-> box_pose[i].q]

\* C4: goal_pose always equals box.pose * box_hole_offset * inverse(peg_head_offset)
\* and depends only on the box pose and the fixed offsets: a step that is not
\* an episode initialization (or a scene rebuild) leaves goal_pose unchanged,
\* whatever it does to the peg.
C4_GoalPoseFixed ==
    /\ [](\A i \in Envs(num_envs) : goal_pose(Self)[i] = GoalExplicit(i))
    /\ [][op' \notin {"initialize_episode", "load_scene"} => goal_pose(Self)' = goal_pose(Self)]_vars

\* C4 witness: a physics step has moved the peg away from where the episode
\* initialization put it, onto the goal pose itself
C4_Witness ==
    /\ op = "physics"
    /\ peg_pose[1] = goal_pose(Self)[1]

\* squared lateral (y, z) distance of world point w from the goal frame
LateralSq(i, w) ==
    LET d == rotate(transpose(box_pose[i].q), vsub(w, GoalExplicit(i).p))
    IN  d[2] * d[2] + d[3] * d[3]
\* both the peg head and the peg origin are laterally within 0.01 of the goal frame
PreInserted(i) == LateralSq(i, HeadWorld(i)) < mm(10) * mm(10) /\ LateralSq(i, peg_pose[i].p) < mm(10) * mm(10)

\* C5: where success is False, the dense reward is reach + grasp bonus +
\* (pre-insertion term if grasped) + (insertion term if grasped and
\* pre-inserted), pre-inserted meaning d_head < 0.01 and d_body < 0.01; an
\* instance that is not grasped receives only the reaching term, at most 1,
\* however close the peg head is to the hole.
C5_StagedReward ==
    \A i \in Envs(num_envs) :
        (op = "compute_dense_reward" /\ ~info.success[i]) =>
            /\ reward[i] = reaching_reward(Self)[i]
                           + (IF is_grasping[i] THEN One ELSE 0)
                           + (IF is_grasping[i] THEN pre_insertion_reward(Self)[i] ELSE 0)
                           + (IF is_grasping[i] /\ PreInserted(i) THEN insertion_reward(Self)[i] ELSE 0)
            /\ ~is_grasping[i] => (reward[i] = reaching_reward(Self)[i] /\ reward[i] <= One)

\* C5 witness: the reward was computed for an instance that is not grasped and
\* not successful while its peg is pre-inserted, the head 0.5 mm short of the
\* tolerance volume
C5_Witness ==
    /\ op = "compute_dense_reward"
    /\ ~info.success[1]
    /\ ~is_grasping[1]
    /\ PreInserted(1)
    /\ HeadAtHole(1) = <<-mm(15) - 1, 0, 0>>
    /\ insertion_reward(Self)[1] > 0

\* C8: success is not latched: what evaluate returns depends only on the
\* poses at that step, and within one episode it may go True, False, True.
C8_SuccessNotLatched ==
    [][op' = "evaluate" =>
          /\ info'.success = [i \in Envs(num_envs) |-> InTolerance(HeadAtHole(i), box_hole_radii[i])]'
          /\ log'[Len(log')] = info'.success]_vars

\* C8 witness: three evaluations of one episode returned True, False, True
C8_Witness ==
    /\ Len(log) = 3
    /\ log[1][1] /\ ~log[2][1] /\ log[3][1]

\* C10: the two peg-head accessors agree: peg_head_pos is the translation of
\* peg_head_pose for every peg pose, rotated pegs included.
C10_HeadAccessorsAgree ==
    \A i \in Envs(num_envs) : peg_head_pos(Self)[i] = peg_head_pose(Self)[i].p

\* the built box of environment i: outer radius, inner radius, wall k's width
\* across the hole axis (walls 1, 2 bound the hole in y, walls 3, 4 in z)
OuterRadius(i) == peg_half_sizes[i][1]
InnerRadius(i) == peg_half_sizes[i][2] + mm(3)
WallWidth(i, k) == 2 * box_walls[i][k].half_size[IF k <= 2 THEN 2 ELSE 3]
HoleStrictlyInside(i) ==
    /\ Abs(box_hole_offsets[i].p[2]) + box_hole_radii[i] < OuterRadius(i)
    /\ Abs(box_hole_offsets[i].p[3]) + box_hole_radii[i] < OuterRadius(i)
WallsPositive(i) == \A k \in 1..4 : \A c \in 1..3 : box_walls[i][k].half_size[c] > 0

\* C6 as claimed: the hole stays strictly inside the box cross-section, on each
\* of the four sides the solid wall left between the hole and the outer face
\* is at least the wall thickness (outer_radius - inner_radius) / 2, and every
\* wall box has strictly positive half sizes.
C6_WallAtLeastThickness ==
    \A i \in Envs(num_envs) :
        /\ box_hole_radii[i] = InnerRadius(i)
        /\ HoleStrictlyInside(i)
        /\ WallsPositive(i)
        /\ \A k \in 1..4 : 2 * WallWidth(i, k) >= OuterRadius(i) - InnerRadius(i)

\* C6 as amended: the hole stays strictly inside the box cross-section, on
\* each of the four sides the solid wall left is at least the wall thickness
\* less half the clearance, (outer_radius - inner_radius) / 2 - 0.0015, and
\* every wall box has strictly positive half sizes.
C6_WallAtLeastThicknessLessHalfClearance ==
    \A i \in Envs(num_envs) :
        /\ box_hole_radii[i] = InnerRadius(i)
        /\ HoleStrictlyInside(i)
        /\ WallsPositive(i)
        /\ \A k \in 1..4 : 2 * WallWidth(i, k) >= OuterRadius(i) - InnerRadius(i) - mm(3)

\* C6 witness: a scene was built with the hole offset at the end of its range
\* in y, where the wall left is exactly the thickness less half the clearance
C6_Witness ==
    /\ op = "load_scene"
    /\ 2 * box_hole_offsets[1].p[2] = peg_half_sizes[1][1] - peg_half_sizes[1][2]
    /\ 2 * WallWidth(1, 1) = OuterRadius(1) - InnerRadius(1) - mm(3)

\* the point (y, z) of the box's cross-section lies in one of the four walls
InWalls(i, y, z) ==
    \E k \in 1..4 :
        /\ Abs(y - box_walls[i][k].pose[2]) <= box_walls[i][k].half_size[2]
        /\ Abs(z - box_walls[i][k].pose[3]) <= box_walls[i][k].half_size[3]
\* the point lies in the square of the outer radius and not in the opening of
\* half width hole_radius about the hole centre
InSquareMinusOpening(i, y, z) ==
    /\ Abs(y) <= OuterRadius(i) /\ Abs(z) <= OuterRadius(i)
    /\ ~(Abs(y - box_hole_offsets[i].p[2]) < box_hole_radii[i] /\ Abs(z - box_hole_offsets[i].p[3]) < box_hole_radii[i])
\* the coordinates at which membership of a union of such boxes can change,
\* and their neighbours
Breaks(i, c) == UNION {{v - 1, v, v + 1} : v \in {-OuterRadius(i), c - box_hole_radii[i], c, c + box_hole_radii[i], OuterRadius(i)}}

\* C9: the union of the four wall boxes is the square [-outer, outer]^2 of the
\* box's y,z plane less a rectangular opening whose centre is the y,z
\* translation of box_hole_offset (zero along x) and whose half width on each
\* axis is inner_radius = radius + 0.003 = box_hole_radii.
C9_WallsFrameTheHole ==
    \A i \in Envs(num_envs) :
        /\ box_hole_offsets[i].p[1] = 0
        /\ box_hole_radii[i] = InnerRadius(i)
        /\ \A k \in 1..4 : box_walls[i][k].pose[1] = 0 /\ box_walls[i][k].half_size[1] = OuterRadius(i)
        /\ \A y \in Breaks(i, box_hole_offsets[i].p[2]) : \A z \in Breaks(i, box_hole_offsets[i].p[3]) :
              InWalls(i, y, z) = InSquareMinusOpening(i, y, z)

\* C9 witness: a scene was built whose hole is off centre on both axes
C9_Witness ==
    /\ op = "load_scene"
    /\ box_hole_offsets[1].p[2] > 0
    /\ box_hole_offsets[1].p[3] < 0
    /\ box_hole_offsets[1].p[2] # -box_hole_offsets[1].p[3]

\* some other instance: another geometry, the peg head at the hole centre, grasped
OtherSelf == [ExampleSelf(Zero3, mm(30)) EXCEPT !.is_grasping = <<TRUE>>, !.box_pose = <<create_from_pq(<<mm(10), mm(300), mm(85)>>, RotZ90)>>]

\* self with every instance but i changed as pick says: overwritten by a copy
\* of instance i, or overwritten by OtherSelf's instance
Changed(self, i, pick, field) == [j \in Envs(self.num_envs) |-> IF j = i THEN self[field][j] ELSE IF pick = "copy" THEN self[field][i] ELSE OtherSelf[field][1]]
AltSelf(self, i, pick) == [num_envs |-> self.num_envs, peg_half_sizes |-> Changed(self, i, pick, "peg_half_sizes"), peg_head_offsets |-> Changed(self, i, pick, "peg_head_offsets"), box_hole_offsets |-> Changed(self, i, pick, "box_hole_offsets"), box_hole_radii |-> Changed(self, i, pick, "box_hole_radii"), peg_pose |-> Changed(self, i, pick, "peg_pose"), box_pose |-> Changed(self, i, pick, "box_pose"), tcp_p |-> Changed(self, i, pick, "tcp_p"), is_grasping |-> Changed(self, i, pick, "is_grasping")]
\* an info dict that agrees with inf on instance i and is flipped elsewhere
AltInfo(inf, n, i) == [success |-> [j \in Envs(n) |-> IF j = i THEN inf.success[i] ELSE ~inf.success[j]], peg_head_pos_at_hole |-> inf.peg_head_pos_at_hole]

\* everything the methods return for the batch self, given the info dict inf
Outputs(self, inf) == [evaluate |-> evaluate(self), peg_head_pose |-> peg_head_pose(self), box_hole_pose |-> box_hole_pose(self), goal_pose |-> goal_pose(self), dense |-> compute_dense_reward(self, inf), normalized |-> compute_normalized_dense_reward(self, inf)]
\* instance i's part of them
OutputsAt(out, i) == [f \in DOMAIN out |-> IF f = "evaluate" THEN [k \in DOMAIN out[f] |-> out[f][k][i]] ELSE out[f][i]]

\* every batch that agrees with self on instance i among those AltSelf makes
AltSelves(self, i) == {AltSelf(self, i, pick) : pick \in {"copy", "other"}}

\* C7: per-instance independence.  Two batches that agree on instance i's
\* state and differ on the other instances give instance i the same evaluate,
\* reward and derived-frame outputs; and an episode initialization places
\* each instance it resets using that instance's own radius and half_length.
C7_PerInstanceIndependence ==
    /\ [](\A self \in {Self} : \A inf \in {evaluate(self)} : \A out \in {Outputs(self, inf)} :
             \A i \in Envs(num_envs) : \A alt \in AltSelves(self, i) :
                 OutputsAt(Outputs(alt, AltInfo(inf, num_envs, i)), i) = OutputsAt(out, i))
    /\ [][op' = "initialize_episode" =>
            \A i \in Envs(num_envs) :
                \/ peg_pose'[i] = peg_pose[i] /\ box_pose'[i] = box_pose[i]
                \/ peg_pose'[i].p[3] = peg_half_sizes[i][3] /\ box_pose'[i].p[3] = peg_half_sizes[i][1]]_vars

\* C7 witness: in a batch whose first two instances differ in radius and in
\* half length, instance 2 alone was reset while instance 1 keeps the grasped
\* peg a physics step left it with
C7_Witness ==
    /\ op = "initialize_episode"
    /\ peg_half_sizes[1][1] # peg_half_sizes[2][1]
    /\ peg_half_sizes[1][2] # peg_half_sizes[2][2]
    /\ is_grasping[1] /\ ~is_grasping[2]
    /\ peg_pose[2].p[3] = peg_half_sizes[2][3]
    /\ box_pose[2].p[3] = peg_half_sizes[2][1]

=============================================================================
